---- MODULE Spec2Model ----
(***************************************************************************)
(* Model of reportscript.py: the translation cache and the thread-pool     *)
(* batch translation, the file locator, the table processing and the       *)
(* spreadsheet publishing sequence.                                        *)
(***************************************************************************)
EXTENDS Integers, Sequences, FiniteSets, TLC

VARIABLES
  cache,      \* Translator._cache: key -> translated text
  tpc,        \* where the caller of the translator is: "idle", "running", "aborted"
  kind,       \* the call that runs or ran last: "none", "batch", "direct"
  inputs,     \* the texts handed to the running _batch_translate / translate_text call
  tasks,      \* one record per submitted translate_text call of the running call
  results,    \* the list executor.map has yielded so far
  ncalls,     \* how many batch / direct calls have been started in this run
  log,        \* ghost: every translate_text call that has returned
  gpc,        \* where generate_report is in its publishing part
  table,      \* the processed table to publish: header row, then the rows
  client,     \* GoogleSheetManager.client is set
  sheets,     \* the remote spreadsheet: exists, shared with, worksheet exists
  content,    \* the rows the target worksheet holds
  before,     \* ghost: the rows the target worksheet held when the run began
  fmt,        \* the header range is styled; the columns whose width is set
  steps,      \* ghost: the publisher steps begun so far, each with its status
  lpc,        \* where get_latest_file is: "start", "loop", "done", "raised"
  folder,     \* the folder: whether it exists, and what os.listdir returns
  idx,        \* the position of the loop in the listing
  latest_file,
  latest_date,
  lresult,    \* what get_latest_file returned
  dpc,        \* where process_data is: "rename", "format", "sort", "done"
  source,     \* ghost: the frame as load_data read it
  data_frame  \* DataProcessor.data_frame: a list of rows

trVars == <<cache, tpc, kind, inputs, tasks, results, ncalls, log>>

pubVars == <<gpc, table, client, sheets, content, before, fmt, steps>>

locVars == <<lpc, folder, idx, latest_file, latest_date, lresult>>

procVars == <<dpc, source, data_frame>>

vars == <<trVars, pubVars, locVars, procVars>>

\* what the steps of each part of the program leave alone
notTr == <<pubVars, locVars, procVars>>

notPub == <<trVars, locVars, procVars>>

notLoc == <<trVars, pubVars, procVars>>

notProc == <<trVars, pubVars, locVars>>

----------------------------------------------------------------------------
(* Text values.  A cell is either missing (pandas NaN) or a string, kept   *)
(* as a sequence of characters.                                            *)

NaN == [na |-> TRUE, s |-> <<>>]

Str(chars) == [na |-> FALSE, s |-> chars]

Texts == {NaN, Str(<<>>), Str(<<" ">>), Str(<<"a">>), Str(<<"b", " ">>)}

\* pd.notna(text)
notna(text) == ~text.na

RECURSIVE lstrip(_)
lstrip(s) == IF s # <<>> /\ Head(s) = " " THEN lstrip(Tail(s)) ELSE s

RECURSIVE rstrip(_)
rstrip(s) == IF s # <<>> /\ s[Len(s)] = " " THEN rstrip(SubSeq(s, 1, Len(s) - 1)) ELSE s

\* str(text).strip(); str(nan) is "nan"
strip(text) == IF text.na THEN <<"n", "a", "n">> ELSE lstrip(rstrip(text.s))

\* the guard with the strip() left out: only the empty string counts as blank
NonBlank_nostrip(text) == notna(text) /\ text.s # <<>>

\* the guard of translate_text and of the list comprehension of _batch_translate
NonBlank(text) == notna(text) /\ strip(text) # <<>>

src_lang == "en"

target_lang == "ja"

\* key = (text, src_lang, target_lang)
Key(text) == <<text, src_lang, target_lang>>

\* what the translation provider returns for a text when it does not raise
GoogleTranslate(text) == Str(<<"ja">> \o text.s)

\* the argument list built for executor.map: blank and missing cells become ""
Normalise(text) == IF NonBlank(text) THEN text ELSE Str(<<>>)

max_workers == 10

MaxLen == 2

MaxCalls == 2

SeqsUpTo(S, n) == UNION {[1..k -> S] : k \in 0..n}

NewTask(arg, st) ==
  [arg |-> arg, st |-> st, ret |-> arg, outcome |-> "none", succ |-> FALSE]

Running == {i \in 1..Len(tasks) : tasks[i].st \in {"taken", "calling"}}

----------------------------------------------------------------------------
(* Translator.translate_text, one step per atomic piece of the method.     *)

InitTr ==
  /\ cache = <<>>
  /\ tpc = "idle"
  /\ kind = "none"
  /\ inputs = <<>>
  /\ tasks = <<>>
  /\ results = <<>>
  /\ ncalls = 0
  /\ log = {}

\* DataProcessor._batch_translate: normalise the list and submit it to the pool
BatchStart ==
  /\ tpc = "idle"
  /\ ncalls < MaxCalls
  /\ \E texts \in SeqsUpTo(Texts, MaxLen) :
       /\ inputs' = texts
       /\ tasks' = [i \in 1..Len(texts) |-> NewTask(Normalise(texts[i]), "queued")]
  /\ tpc' = "running"
  /\ kind' = "batch"
  /\ results' = <<>>
  /\ ncalls' = ncalls + 1
  /\ UNCHANGED <<cache, log>>
  /\ UNCHANGED notTr

\* a direct call of the static method Translator.translate_text
DirectCall ==
  /\ tpc = "idle"
  /\ ncalls < MaxCalls
  /\ \E text \in Texts :
       /\ inputs' = <<text>>
       /\ tasks' = <<NewTask(text, "taken")>>
  /\ tpc' = "running"
  /\ kind' = "direct"
  /\ results' = <<>>
  /\ ncalls' = ncalls + 1
  /\ UNCHANGED <<cache, log>>
  /\ UNCHANGED notTr

\* a free pool thread takes the oldest queued work item
Take(i) ==
  /\ tpc = "running"
  /\ tasks[i].st = "queued"
  /\ \A j \in 1..(i - 1) : tasks[j].st # "queued"
  /\ Cardinality(Running) < max_workers
  /\ tasks' = [tasks EXCEPT ![i].st = "taken"]
  /\ UNCHANGED <<cache, tpc, kind, inputs, results, ncalls, log>>
  /\ UNCHANGED notTr

Finish(i, ret, outcome, succ) ==
  /\ tasks' = [tasks EXCEPT ![i].st = "done", ![i].ret = ret,
                            ![i].outcome = outcome, ![i].succ = succ]
  /\ log' = log \cup {[arg |-> tasks[i].arg, ret |-> ret, outcome |-> outcome]}

\* translate_text up to the provider call: the blank test and the cache lookup
Check(i) ==
  /\ tpc = "running"
  /\ tasks[i].st = "taken"
  /\ LET text == tasks[i].arg
         succ == \E c \in log : c.arg = text
     IN  IF ~NonBlank(text)
           THEN Finish(i, text, "blank", succ)
           ELSE IF Key(text) \in DOMAIN cache
             THEN Finish(i, cache[Key(text)], "hit", succ)
             ELSE /\ tasks' = [tasks EXCEPT ![i].st = "calling", ![i].succ = succ]
                  /\ log' = log
  /\ UNCHANGED <<cache, tpc, kind, inputs, results, ncalls>>
  /\ UNCHANGED notTr

\* the provider returns: store the translation and return it
ProviderReturn(i) ==
  /\ tasks[i].st = "calling"
  /\ LET text == tasks[i].arg
         translated == GoogleTranslate(text)
     IN  /\ cache' = [k \in DOMAIN cache \cup {Key(text)} |->
                        IF k = Key(text) THEN translated ELSE cache[k]]
         /\ Finish(i, translated, "ok", tasks[i].succ)
  /\ UNCHANGED <<tpc, kind, inputs, results, ncalls>>
  /\ UNCHANGED notTr

\* the except clause left out: the exception leaves translate_text
ProviderRaise_propagates(i) ==
  /\ tasks[i].st = "calling"
  /\ Finish(i, tasks[i].arg, "exception", tasks[i].succ)
  /\ UNCHANGED <<cache, tpc, kind, inputs, results, ncalls>>
  /\ UNCHANGED notTr

\* the except clause also storing the fallback text under the key
ProviderRaise_caches(i) ==
  /\ tasks[i].st = "calling"
  /\ cache' = [k \in DOMAIN cache \cup {Key(tasks[i].arg)} |->
                 IF k = Key(tasks[i].arg) THEN tasks[i].arg ELSE cache[k]]
  /\ Finish(i, tasks[i].arg, "raised", tasks[i].succ)
  /\ UNCHANGED <<tpc, kind, inputs, results, ncalls>>
  /\ UNCHANGED notTr

\* the provider raises: the except clause prints and returns the text
ProviderRaise(i) ==
  /\ tasks[i].st = "calling"
  /\ Finish(i, tasks[i].arg, "raised", tasks[i].succ)
  /\ UNCHANGED <<cache, tpc, kind, inputs, results, ncalls>>
  /\ UNCHANGED notTr

\* the results taken from the last future to the first
Collect_reversed ==
  /\ tpc = "running"
  /\ Len(results) < Len(tasks)
  /\ LET i == Len(tasks) - Len(results)
     IN  /\ tasks[i].st = "done"
         /\ results' = Append(results, tasks[i].ret)
         /\ tpc' = tpc
  /\ UNCHANGED <<cache, kind, inputs, tasks, ncalls, log>>
  /\ UNCHANGED notTr

\* list(executor.map(...)) takes the next future, in submission order;
\* a future that holds an exception re-raises it in the caller
Collect ==
  /\ tpc = "running"
  /\ Len(results) < Len(tasks)
  /\ LET i == Len(results) + 1
     IN  /\ tasks[i].st = "done"
         /\ IF tasks[i].outcome = "exception"
              THEN /\ tpc' = "aborted"
                   /\ results' = results
              ELSE /\ results' = Append(results, tasks[i].ret)
                   /\ tpc' = tpc
  /\ UNCHANGED <<cache, kind, inputs, tasks, ncalls, log>>
  /\ UNCHANGED notTr

\* the call returns its result list to the caller
CallReturn ==
  /\ tpc = "running"
  /\ Len(results) = Len(tasks)
  /\ tpc' = "idle"
  /\ UNCHANGED <<cache, kind, inputs, tasks, results, ncalls, log>>
  /\ UNCHANGED notTr

----------------------------------------------------------------------------
(* WeeklyProjectReport.generate_report from authenticate on, one step per  *)
(* remote call.  Every remote call may raise.                              *)

MaxRows == 2

\* formatted_df.columns; the two translated columns carry Japanese names in the code
header == <<"Assignees", "Title", "title_ja", "body", "body_ja", "Repository",
            "Status", "plan start", "plan finish", "real start", "real finish">>

NumColumns == 11

SampleRows == {[c \in 1..NumColumns |-> "x"], [c \in 1..NumColumns |-> "y"]}

IdlePub ==
  /\ gpc = "off"
  /\ table = <<>>
  /\ client = FALSE
  /\ sheets = [exists |-> FALSE, shared |-> FALSE, worksheet |-> FALSE]
  /\ content = <<>>
  /\ before = <<>>
  /\ fmt = [header |-> FALSE, widths |-> 0]
  /\ steps = <<>>

InitPub ==
  /\ gpc = "authenticate"
  /\ \E rows \in SeqsUpTo(SampleRows, MaxRows) : table = <<header>> \o rows
  /\ client = FALSE
  /\ \E e \in BOOLEAN, sh \in BOOLEAN, w \in BOOLEAN :
       /\ (sh \/ w) => e
       /\ sheets = [exists |-> e, shared |-> sh, worksheet |-> w]
       /\ \E old \in SeqsUpTo(SampleRows, 1) :
            /\ ~w => old = <<>>
            /\ content = old
            /\ before = old
  /\ fmt = [header |-> FALSE, widths |-> 0]
  /\ steps = <<>>

Begin(name) == Append(steps, [name |-> name, status |-> "started"])

Mark(log0, status) == [log0 EXCEPT ![Len(log0)].status = status]

\* an exception leaves generate_report (or sys.exit(1) is called): the run ends
Abort ==
  /\ gpc' = "failed"
  /\ steps' = Mark(steps, "failed")

\* authenticate(): the credentials load and gspread.authorize succeed
Authenticate ==
  /\ gpc = "authenticate"
  /\ client' = TRUE
  /\ gpc' = "open"
  /\ steps' = Mark(Begin("authenticate"), "ok")
  /\ UNCHANGED <<table, sheets, content, before, fmt>>
  /\ UNCHANGED notPub

\* the except clause without its sys.exit(1): the run goes on unauthenticated
AuthenticateFails_continues ==
  /\ gpc = "authenticate"
  /\ gpc' = "open"
  /\ steps' = Mark(Begin("authenticate"), "failed")
  /\ UNCHANGED <<table, client, sheets, content, before, fmt>>
  /\ UNCHANGED notPub

\* authenticate(): an exception is caught, printed, and sys.exit(1) ends the run
AuthenticateFails ==
  /\ gpc = "authenticate"
  /\ gpc' = "failed"
  /\ steps' = Mark(Begin("authenticate"), "failed")
  /\ UNCHANGED <<table, client, sheets, content, before, fmt>>
  /\ UNCHANGED notPub

\* get_or_create_spreadsheet(): client.open(name); with no client set the
\* attribute access itself raises
OpenSpreadsheet ==
  /\ gpc = "open"
  /\ \/ /\ client
        /\ sheets.exists
        /\ gpc' = "share"
        /\ steps' = Mark(Begin("spreadsheet"), "ok")
     \/ /\ client
        /\ ~sheets.exists
        /\ gpc' = "create"
        /\ steps' = Begin("spreadsheet")
     \/ /\ gpc' = "failed"
        /\ steps' = Mark(Begin("spreadsheet"), "failed")
  /\ UNCHANGED <<table, client, sheets, content, before, fmt>>
  /\ UNCHANGED notPub

\* get_or_create_spreadsheet(): client.create(name) after SpreadsheetNotFound
CreateSpreadsheet ==
  /\ gpc = "create"
  /\ \/ /\ sheets' = [sheets EXCEPT !.exists = TRUE]
        /\ gpc' = "share"
        /\ steps' = Mark(steps, "ok")
     \/ /\ Abort
        /\ sheets' = sheets
  /\ UNCHANGED <<table, client, content, before, fmt>>
  /\ UNCHANGED notPub

\* share_spreadsheet(email): spreadsheet.share(email, perm_type="user", role="writer")
ShareSpreadsheet ==
  /\ gpc = "share"
  /\ \/ /\ sheets' = [sheets EXCEPT !.shared = TRUE]
        /\ gpc' = "worksheet"
        /\ steps' = Mark(Begin("share"), "ok")
     \/ /\ gpc' = "failed"
        /\ steps' = Mark(Begin("share"), "failed")
        /\ sheets' = sheets
  /\ UNCHANGED <<table, client, content, before, fmt>>
  /\ UNCHANGED notPub

\* get_or_create_worksheet(name): spreadsheet.worksheet(name)
FindWorksheet ==
  /\ gpc = "worksheet"
  /\ \/ /\ sheets.worksheet
        /\ gpc' = "clear"
        /\ steps' = Mark(Begin("worksheet"), "ok")
     \/ /\ ~sheets.worksheet
        /\ gpc' = "add_worksheet"
        /\ steps' = Begin("worksheet")
     \/ /\ gpc' = "failed"
        /\ steps' = Mark(Begin("worksheet"), "failed")
  /\ UNCHANGED <<table, client, sheets, content, before, fmt>>
  /\ UNCHANGED notPub

\* get_or_create_worksheet(name): add_worksheet(...) after WorksheetNotFound
AddWorksheet ==
  /\ gpc = "add_worksheet"
  /\ \/ /\ sheets' = [sheets EXCEPT !.worksheet = TRUE]
        /\ gpc' = "clear"
        /\ steps' = Mark(steps, "ok")
     \/ /\ Abort
        /\ sheets' = sheets
  /\ UNCHANGED <<table, client, content, before, fmt>>
  /\ UNCHANGED notPub

\* update_data(): worksheet.clear()
ClearWorksheet ==
  /\ gpc = "clear"
  /\ \/ /\ content' = <<>>
        /\ gpc' = "update"
        /\ steps' = Begin("update_data")
     \/ /\ gpc' = "failed"
        /\ steps' = Mark(Begin("update_data"), "failed")
        /\ content' = content
  /\ UNCHANGED <<table, client, sheets, before, fmt>>
  /\ UNCHANGED notPub

\* worksheet.update(values=data, range_name="A1"): the rows of data replace the
\* rows they cover, the rows below them stay
Written(old, data) ==
  [r \in 1..(IF Len(old) > Len(data) THEN Len(old) ELSE Len(data)) |->
     IF r <= Len(data) THEN data[r] ELSE old[r]]

\* update_data(): data = [columns] + values; worksheet.update(data, "A1")
UpdateWorksheet ==
  /\ gpc = "update"
  /\ \/ /\ content' = Written(content, table)
        /\ gpc' = "format"
        /\ steps' = Mark(steps, "ok")
     \/ /\ Abort
        /\ content' = content
  /\ UNCHANGED <<table, client, sheets, before, fmt>>
  /\ UNCHANGED notPub

\* apply_formatting(worksheet, "A1:K1"): format_cell_range
ApplyFormatting ==
  /\ gpc = "format"
  /\ \/ /\ fmt' = [fmt EXCEPT !.header = TRUE]
        /\ gpc' = "widths"
        /\ steps' = Mark(Begin("apply_formatting"), "ok")
     \/ /\ gpc' = "failed"
        /\ steps' = Mark(Begin("apply_formatting"), "failed")
        /\ fmt' = fmt
  /\ UNCHANGED <<table, client, sheets, content, before>>
  /\ UNCHANGED notPub

\* set_column_widths(): one set_column_width call per column of the width map
SetColumnWidth ==
  /\ gpc = "widths"
  /\ LET log0 == IF fmt.widths = 0 THEN Begin("set_column_widths") ELSE steps
     IN  \/ /\ fmt' = [fmt EXCEPT !.widths = fmt.widths + 1]
            /\ IF fmt.widths + 1 = NumColumns
                 THEN gpc' = "done" /\ steps' = Mark(log0, "ok")
                 ELSE gpc' = gpc /\ steps' = log0
         \/ /\ gpc' = "failed"
            /\ steps' = Mark(log0, "failed")
            /\ fmt' = fmt
  /\ UNCHANGED <<table, client, sheets, content, before>>
  /\ UNCHANGED notPub

----------------------------------------------------------------------------
(* get_latest_file.  A file name is kept as its parts: what precedes the   *)
(* stem, the stem, the three digit groups, and what follows ".csv".  The   *)
(* names of the model all have the shape <stem>_DDDD-DD-DD.csv<tail>.      *)

MaxFiles == 2

None == "None"

FileNames ==
  [stem : {"project", "notes"}, y : {2023, 2024}, m : {2, 13}, d : {28, 30},
   tail : {"", ".bak"}]

\* re.search(file_pattern, filename): the pattern may match anywhere in the name
Search(filename) == filename.stem = "project"

IsLeap(y) == (y % 4 = 0 /\ y % 100 # 0) \/ y % 400 = 0

DaysInMonth(y, m) ==
  IF m = 2 THEN (IF IsLeap(y) THEN 29 ELSE 28)
  ELSE IF m \in {4, 6, 9, 11} THEN 30 ELSE 31

\* datetime.strptime(s, "%Y-%m-%d") raises ValueError unless the digits are a date
ParsesAsDate(f) ==
  /\ f.y >= 1
  /\ f.m \in 1..12
  /\ f.d \in 1..DaysInMonth(f.y, f.m)

\* file_date > latest_date on datetime values
DateLess(a, b) ==
  \/ a[1] < b[1]
  \/ a[1] = b[1] /\ a[2] < b[2]
  \/ a[1] = b[1] /\ a[2] = b[2] /\ a[3] < b[3]

IdleLoc ==
  /\ lpc = "off"
  /\ folder = [exists |-> FALSE, listing |-> <<>>]
  /\ idx = 0
  /\ latest_file = None
  /\ latest_date = None
  /\ lresult = None

\* os.listdir returns the names of the folder, each once, in any order
InitLoc ==
  /\ lpc = "start"
  /\ \E e \in BOOLEAN : \E l \in SeqsUpTo(FileNames, MaxFiles) :
       /\ \A i \in 1..Len(l) : \A j \in 1..Len(l) : i # j => l[i] # l[j]
       /\ ~e => l = <<>>
       /\ folder = [exists |-> e, listing |-> l]
  /\ idx = 0
  /\ latest_file = None
  /\ latest_date = None
  /\ lresult = None

\* if not os.path.exists(folder_path): return None
FolderMissing ==
  /\ lpc = "start"
  /\ ~folder.exists
  /\ lpc' = "done"
  /\ lresult' = None
  /\ UNCHANGED <<folder, idx, latest_file, latest_date>>
  /\ UNCHANGED notLoc

FolderFound ==
  /\ lpc = "start"
  /\ folder.exists
  /\ lpc' = "loop"
  /\ idx' = 1
  /\ UNCHANGED <<folder, latest_file, latest_date, lresult>>
  /\ UNCHANGED notLoc

\* one iteration of the loop over os.listdir(folder_path)
LoopBody ==
  /\ lpc = "loop"
  /\ idx <= Len(folder.listing)
  /\ LET f == folder.listing[idx]
         file_date == <<f.y, f.m, f.d>>
     IN  IF ~Search(f)
           THEN /\ idx' = idx + 1
                /\ UNCHANGED <<lpc, latest_date, latest_file>>
           ELSE IF ~ParsesAsDate(f)
             THEN /\ lpc' = "raised"
                  /\ UNCHANGED <<idx, latest_date, latest_file>>
             ELSE /\ idx' = idx + 1
                  /\ lpc' = lpc
                  /\ IF latest_date = None \/ DateLess(latest_date, file_date)
                       THEN latest_date' = file_date /\ latest_file' = f
                       ELSE UNCHANGED <<latest_date, latest_file>>
  /\ UNCHANGED <<folder, lresult>>
  /\ UNCHANGED notLoc

\* after the loop: return latest_file
LoopEnd ==
  /\ lpc = "loop"
  /\ idx > Len(folder.listing)
  /\ lpc' = "done"
  /\ lresult' = latest_file
  /\ UNCHANGED <<folder, idx, latest_file, latest_date>>
  /\ UNCHANGED notLoc

----------------------------------------------------------------------------
(* DataProcessor.process_data.  A row keeps the columns the processing     *)
(* reads: Assignees and Title, and the added translated title.             *)

MaxTableRows == 3

name_replacements ==
  (<<"d", "h", "a", "n", "u", "k", "a", "k", "a", "r", "u", "n", "a", "s", "e", "n", "a">> :> <<"D", "h", "a", "n", "u", "k", "a">>) @@
  (<<"m", "a", "l", "c", "o", "l", "m", "S", "a", "n", "s", "e", "n">> :> <<"M", "a", "l", "c", "o", "m">>) @@
  (<<"s", "h", "i", "m", "i", "z", "u", "3", "9">> :> <<"P", "r", "a", "s", "h", "a", "n", "t", "i">>) @@
  (<<"s", "h", "i", "m", "i", "z", "u", "S", "a", "r", "u", "n">> :> <<"S", "a", "r", "a", "n">>) @@
  (<<"S", "o", "n", "S", "a", "n", "s", "e", "n">> :> <<"S", "o", "n">>) @@
  (<<"H", "t", "e", "t", "S", "a", "n", "s", "e", "n">> :> <<"H", "t", "e", "t">>)

\* the code points of the characters the model's names use
Ord ==
  (" " :> 32) @@ ("3" :> 51) @@ ("9" :> 57) @@ ("D" :> 68) @@ ("H" :> 72) @@ ("M" :> 77) @@
  ("P" :> 80) @@ ("S" :> 83) @@ ("a" :> 97) @@ ("b" :> 98) @@ ("c" :> 99) @@ ("d" :> 100) @@
  ("e" :> 101) @@ ("h" :> 104) @@ ("i" :> 105) @@ ("k" :> 107) @@ ("l" :> 108) @@ ("m" :> 109) @@
  ("n" :> 110) @@ ("o" :> 111) @@ ("r" :> 114) @@ ("s" :> 115) @@ ("t" :> 116) @@ ("u" :> 117) @@
  ("z" :> 122)

bob == Str(<<"b", "o", "b">>)

AssigneeCells ==
  {NaN, bob, Str(<<"d", "h", "a", "n", "u", "k", "a", "k", "a", "r", "u", "n", "a", "s", "e", "n", "a">>), Str(<<"D", "h", "a", "n", "u", "k", "a">>)}

TitleCells == {NaN, Str(<<"a">>)}

\* Series.replace(name_replacements): a cell equal to a key becomes its value
Replace(cell) ==
  IF ~cell.na /\ cell.s \in DOMAIN name_replacements
    THEN Str(name_replacements[cell.s]) ELSE cell

\* fillna("")
fillna(cell) == IF cell.na THEN Str(<<>>) ELSE cell

\* str < str: by code points, a proper prefix first
RECURSIVE SeqLess(_, _)
SeqLess(a, b) ==
  IF b = <<>> THEN FALSE
  ELSE IF a = <<>> THEN TRUE
  ELSE IF Ord[Head(a)] # Ord[Head(b)] THEN Ord[Head(a)] < Ord[Head(b)]
  ELSE SeqLess(Tail(a), Tail(b))

Perms(n) == {f \in [1..n -> 1..n] : \A i \in 1..n : \E j \in 1..n : f[j] = i}

\* the orders sort_values(by="Assignees") may leave the rows in: its default
\* kind is quicksort, which keeps no order among rows of equal key
SortedOrders(df) ==
  {[i \in 1..Len(df) |-> df[f[i]]] : f \in
     {g \in Perms(Len(df)) :
        \A i \in 1..Len(df) : \A j \in 1..Len(df) :
          i < j => ~SeqLess(df[g[j]].Assignees.s, df[g[i]].Assignees.s)}}

\* what _batch_translate may return for one cell
BatchResults(cell) ==
  IF NonBlank(cell) THEN {cell, GoogleTranslate(cell)} ELSE {Str(<<>>)}

IdleProc ==
  /\ dpc = "off"
  /\ source = <<>>
  /\ data_frame = <<>>

\* the frame load_data has read: the rows carry their index
InitProc ==
  /\ dpc = "rename"
  /\ \E rows \in SeqsUpTo(AssigneeCells \X TitleCells, MaxTableRows) :
       source = [i \in 1..Len(rows) |->
                   [index |-> i, Assignees |-> rows[i][1], Title |-> rows[i][2],
                    Title_ja |-> NaN]]
  /\ data_frame = source

\* self.data_frame["Assignees"] = self.data_frame["Assignees"].replace(...)
RenameAssignees ==
  /\ dpc = "rename"
  /\ data_frame' = [i \in 1..Len(data_frame) |->
                      [data_frame[i] EXCEPT !.Assignees = Replace(@)]]
  /\ dpc' = "format"
  /\ UNCHANGED source
  /\ UNCHANGED notProc

\* formatted_df: the columns copied, the translated column from _batch_translate
BuildFormatted ==
  /\ dpc = "format"
  /\ \E tr \in [1..Len(data_frame) -> UNION {BatchResults(c) : c \in TitleCells}] :
       /\ \A i \in 1..Len(data_frame) : tr[i] \in BatchResults(data_frame[i].Title)
       /\ data_frame' = [i \in 1..Len(data_frame) |->
                           [data_frame[i] EXCEPT !.Title_ja = tr[i]]]
  /\ dpc' = "sort"
  /\ UNCHANGED source
  /\ UNCHANGED notProc

\* formatted_df.fillna("").sort_values(by="Assignees").reset_index(drop=True)
FillSort ==
  /\ dpc = "sort"
  /\ LET filled == [i \in 1..Len(data_frame) |->
                      [index |-> data_frame[i].index,
                       Assignees |-> fillna(data_frame[i].Assignees),
                       Title |-> fillna(data_frame[i].Title),
                       Title_ja |-> fillna(data_frame[i].Title_ja)]]
     IN  data_frame' \in SortedOrders(filled)
  /\ dpc' = "done"
  /\ UNCHANGED source
  /\ UNCHANGED notProc

----------------------------------------------------------------------------

InitTrAll == InitTr /\ IdlePub /\ IdleLoc /\ IdleProc

NextTr ==
  \/ BatchStart
  \/ DirectCall
  \/ \E i \in 1..Len(tasks) : Take(i)
  \/ \E i \in 1..Len(tasks) : Check(i)
  \/ \E i \in 1..Len(tasks) : ProviderReturn(i)
  \/ \E i \in 1..Len(tasks) : ProviderRaise(i)
  \/ Collect
  \/ CallReturn

SpecTr == InitTrAll /\ [][NextTr]_vars

InitPubAll == InitPub /\ InitTr /\ IdleLoc /\ IdleProc

NextPub ==
  \/ Authenticate
  \/ AuthenticateFails
  \/ OpenSpreadsheet
  \/ CreateSpreadsheet
  \/ ShareSpreadsheet
  \/ FindWorksheet
  \/ AddWorksheet
  \/ ClearWorksheet
  \/ UpdateWorksheet
  \/ ApplyFormatting
  \/ SetColumnWidth

SpecPub == InitPubAll /\ [][NextPub]_vars

InitLocAll == InitLoc /\ InitTr /\ IdlePub /\ IdleProc

NextLoc ==
  \/ FolderMissing
  \/ FolderFound
  \/ LoopBody
  \/ LoopEnd

SpecLoc == InitLocAll /\ [][NextLoc]_vars

InitProcAll == InitProc /\ InitTr /\ IdlePub /\ IdleLoc

NextProc ==
  \/ RenameAssignees
  \/ BuildFormatted
  \/ FillSort

SpecProc == InitProcAll /\ [][NextProc]_vars

----------------------------------------------------------------------------
(* Properties of the translator and of batch translation.                  *)

\* a value that is missing, empty or made of whitespace only
IsBlankValue(text) == text.na \/ \A n \in 1..Len(text.s) : text.s[n] = " "

Returned(i) == tasks[i].st = "done"

\* C1: when the provider raises, translate_text returns its input text and
\* raises nothing, and the call that contains the failing item runs to its
\* end: no exception reaches the caller and a returned call has a result
\* for every input.
C1_FailureReturnsInput ==
  /\ \A c \in log : c.outcome # "exception" /\ (c.outcome = "raised" => c.ret = c.arg)
  /\ tpc # "aborted"
  /\ (tpc = "idle" /\ kind # "none") => Len(results) = Len(inputs)

C1_Witness ==
  /\ tpc = "idle"
  /\ kind = "batch"
  /\ Len(results) = 2
  /\ tasks[1].outcome = "raised"
  /\ results[1] = inputs[1]
  /\ tasks[2].outcome = "ok"

\* C2: a translate call for a non-blank text that starts after an earlier
\* call with the same (text, source, target) has returned never invokes the
\* provider.
C2_SecondCallIsCacheHit ==
  \A i \in 1..Len(tasks) :
    (tasks[i].succ /\ ~IsBlankValue(tasks[i].arg))
      => (tasks[i].st # "calling" /\ tasks[i].outcome \notin {"ok", "raised"})

\* C3: a missing, empty or whitespace-only argument is returned unchanged,
\* never reaches the provider and never gets a cache entry.
C3_BlankIsIdentity ==
  /\ \A c \in log : IsBlankValue(c.arg) => (c.ret = c.arg /\ c.outcome = "blank")
  /\ \A i \in 1..Len(tasks) : IsBlankValue(tasks[i].arg) => tasks[i].st # "calling"
  /\ \A k \in DOMAIN cache : ~IsBlankValue(k[1])

C3_Witness ==
  /\ kind = "batch"
  /\ cache # <<>>
  /\ Len(inputs) = 2
  /\ inputs[1] = NaN
  /\ inputs[2] = Str(<<"a">>)
  /\ Returned(1)
  /\ Returned(2)
  /\ [arg |-> Str(<<" ">>), ret |-> Str(<<" ">>), outcome |-> "blank"] \in log

\* C4 as stated: the batch result has the length of the input and its i-th
\* element is what translate_text returns for the i-th input element.
C4_ElementwiseTranslateOfInput ==
  /\ Len(results) <= Len(inputs)
  /\ (tpc = "idle" /\ kind = "batch") => Len(results) = Len(inputs)
  /\ kind = "batch" =>
       \A i \in 1..Len(results) : tasks[i].arg = inputs[i] /\ results[i] = tasks[i].ret

\* C4 amended: the batch result has the length of the input and its i-th
\* element is what translate_text returned for the i-th input element after
\* blank and missing elements were replaced by the empty string, whatever
\* the order in which the workers finish.
C4_OrderPreserved ==
  /\ Len(results) <= Len(inputs)
  /\ (tpc = "idle" /\ kind = "batch") => Len(results) = Len(inputs)
  /\ kind = "batch" =>
       \A i \in 1..Len(results) :
         tasks[i].arg = Normalise(inputs[i]) /\ results[i] = tasks[i].ret

\* the second worker returned before the first one looked at the cache
C4_Witness ==
  /\ tpc = "idle"
  /\ kind = "batch"
  /\ ncalls = 1
  /\ Len(results) = 2
  /\ tasks[1].succ
  /\ tasks[1].outcome = "hit"
  /\ tasks[2].outcome = "ok"

\* C5: all translate calls of a run with the same (text, source, target)
\* return the same result.
C5_SameKeySameResult ==
  \A c1 \in log : \A c2 \in log : c1.arg = c2.arg => c1.ret = c2.ret

C10_CacheHoldsProviderResults ==
  /\ \A k \in DOMAIN cache :
       \E c \in log : c.outcome = "ok" /\ Key(c.arg) = k /\ c.ret = cache[k]
  /\ \A c \in log : c.outcome = "hit" =>
       \E d \in log : d.outcome = "ok" /\ d.arg = c.arg /\ d.ret = c.ret

RaiseStep ==
  \E i \in 1..Len(tasks) :
    /\ tasks[i].st = "calling"
    /\ Len(tasks') = Len(tasks)
    /\ tasks'[i].st = "done"
    /\ tasks'[i].outcome = "raised"

\* C10: a step in which the provider raises leaves the cache as it was; the
\* cache maps a key only to a value the provider returned for it, and a
\* cache hit only ever follows a provider success for the same key (after
\* failures alone the provider is called again).
C10_FailureLeavesCache ==
  /\ []C10_CacheHoldsProviderResults
  /\ [][RaiseStep => cache' = cache]_vars

\* the provider is called again after an earlier call for the key failed
C10_Witness ==
  /\ cache = <<>>
  /\ \E i \in 1..Len(tasks) :
       /\ tasks[i].st = "calling"
       /\ tasks[i].succ
       /\ \E c \in log : c.arg = tasks[i].arg /\ c.outcome = "raised"

----------------------------------------------------------------------------
(* Properties of the publishing sequence.                                  *)

StepOrder ==
  <<"authenticate", "spreadsheet", "share", "worksheet", "update_data",
    "apply_formatting", "set_column_widths">>

\* C6: the publisher steps begin in the order authenticate, spreadsheet,
\* share, worksheet, replace contents, header style, column widths; a step
\* begins only when every earlier step has succeeded, and after a failed
\* step the run has ended and no further step begins.
C6_StrictOrder ==
  /\ Len(steps) <= Len(StepOrder)
  /\ \A n \in 1..Len(steps) : steps[n].name = StepOrder[n]
  /\ \A n \in 1..(Len(steps) - 1) : steps[n].status = "ok"
  /\ (\E n \in 1..Len(steps) : steps[n].status = "failed") <=> gpc = "failed"
  /\ gpc = "done" => (Len(steps) = Len(StepOrder) /\ steps[Len(steps)].status = "ok")

\* the run failed in its fifth step, after four steps that succeeded
C6_Witness ==
  /\ gpc = "failed"
  /\ Len(steps) = 5
  /\ steps[5].status = "failed"
  /\ sheets.shared
  /\ sheets.worksheet

\* C7: when the run has ended, in success or in failure, the target worksheet
\* holds either the complete table (header row, then every row) or what it
\* held before the run.
C7_AllOrNothing ==
  gpc \in {"done", "failed"} => (content = table \/ content = before)

----------------------------------------------------------------------------
(* Properties of get_latest_file.                                          *)

\* the name is project_DDDD-DD-DD.csv
MatchesPattern(f) == f.stem = "project" /\ f.tail = ""

Listed == {folder.listing[n] : n \in 1..Len(folder.listing)}

\* C8: get_latest_file never raises; it returns None when the folder does
\* not exist or holds no name matching project_YYYY-MM-DD.csv, and otherwise
\* a matching name whose date no other matching name exceeds.
C8_LatestOrNone ==
  lpc \in {"done", "raised"} =>
    /\ lpc = "done"
    /\ LET M == {f \in Listed : MatchesPattern(f)}
       IN  IF M = {}
             THEN lresult = None
             ELSE /\ lresult \in M
                  /\ \A f \in M : ~DateLess(<<lresult.y, lresult.m, lresult.d>>,
                                            <<f.y, f.m, f.d>>)

----------------------------------------------------------------------------
(* Properties of process_data.                                             *)

\* C9: the processed table has as many rows as the input, each output row
\* comes from exactly one input row, the rows are in ascending order of the
\* renamed assignee, and rows of equal assignee keep their input order.
C9_RowsSortedStable ==
  dpc = "done" =>
    /\ Len(data_frame) = Len(source)
    /\ \A n \in 1..Len(source) :
         Cardinality({k \in 1..Len(data_frame) : data_frame[k].index = n}) = 1
    /\ \A k \in 1..Len(data_frame) :
         /\ data_frame[k].index \in 1..Len(source)
         /\ data_frame[k].Title = fillna(source[data_frame[k].index].Title)
    /\ \A j \in 1..Len(data_frame) : \A k \in 1..Len(data_frame) :
         j < k =>
           /\ ~SeqLess(data_frame[k].Assignees.s, data_frame[j].Assignees.s)
           /\ data_frame[j].Assignees = data_frame[k].Assignees
                => data_frame[j].index < data_frame[k].index

====
